---- MODULE Spec2Model ----
(***************************************************************************)
(* Model of the sysfs GPIO package: the attribute protocol of sysfs.go     *)
(* (export, wait, unexport, direction, polarity, value I/O) and the Pin    *)
(* lifecycle (NewInput, NewOutput, Close, Cleanup, Read, High, Low,        *)
(* SetLogicLevel).  The kernel's control files are the environment: one    *)
(* record of flags per pin number, changed by the tokens written to them   *)
(* and by the device manager that makes a freshly exported pin's files     *)
(* usable some time after the export.                                      *)
(*                                                                         *)
(* Time is counted in milliseconds and advances for a caller only while it *)
(* sleeps in waitUntilWritable; a sleep lasts exactly its duration.        *)
(*                                                                         *)
(* Two specifications share the actions.  Spec interleaves the calls of    *)
(* two callers at the grain of one file operation, with a fruitless wait   *)
(* (all its polls up to the timeout) as one step.  SpecPoll follows one    *)
(* caller poll by poll; SpecPollFair adds that a caller inside the loop of *)
(* waitUntilWritable keeps running it.  In Spec the device manager makes   *)
(* all files of a pin usable at once; in SpecPoll it may also do so file   *)
(* by file, and the value file may hold a byte that is no digit.           *)
(***************************************************************************)
EXTENDS Integers, FiniteSets, Sequences, TLC

\* ---------------------------------------------------------------- bounds
\* pin numbers are FirstPin..FirstPin+MaxPin
MaxPin == 1
\* the lowest pin number used: 9 and 10 have one and two decimal digits
FirstPin == 9
\* calls of p.f.Close() made through one Pin value
MaxCloseCalls == 2

\* ------------------------------------------------------ program constants
\* const timeout = 1 * time.Second, in ms
timeout == 1000
\* time.Sleep(10 * time.Millisecond), in ms
sleepMs == 10

\* direction: inDirection = iota, outDirection
inDirection == 0
outDirection == 1
\* LogicLevel: ActiveHigh = iota, ActiveLow
ActiveHigh == 0
ActiveLow == 1
\* Edge: EdgeNone = iota, EdgeRising, EdgeFalling, EdgeBoth
EdgeNone == 0
EdgeRising == 1
EdgeFalling == 2
EdgeBoth == 3

PinNumbers == FirstPin..(FirstPin + MaxPin)
\* the Pin values held by callers, one call at a time through each
Insts == {1, 2}
\* the callers SpecPoll follows poll by poll
PollInsts == {1}

VARIABLES
    pin,       \* pin[i]: the caller's Pin value [Number, direction, f]
    pc,        \* pc[i]: position of the call in flight on Pin value i
    req,       \* req[i]: the constructor called and its initHigh argument
    cerr,      \* cerr[i]: the error the constructor returned ("none": not yet)
    elapsed,   \* elapsed[i]: time.Since(start) inside waitUntilWritable
    fst,       \* fst[i]: the os.File behind pin[i].f: "none", "open", "closed",
               \*         or "dead" (open, but its pin was unexported since)
    pos,       \* pos[i]: the read/write offset of the os.File behind pin[i].f
    ncloses,   \* ncloses[i]: calls of p.f.Close() made through Pin value i
    accepted,  \* accepted[i]: the kernel's answer to i's write to the export file:
               \*         "none" (no write made), "yes", or "no" (write error)
    exported,  \* exported[n]: the kernel has pin n exported
    usable,    \* usable[n]: the files of gpio<n>/ the device manager has made
               \*         accessible to the process
    kdir,      \* kdir[n]: the kernel's direction of pin n
    kpol,      \* kpol[n]: content of gpio<n>/active_low
    kval,      \* kval[n]: content of gpio<n>/value: 0, 1, or 2 for a byte that
               \*         is no digit
    last       \* the step taken last: who, what, its result and its file write

vars == <<pin, pc, req, cerr, elapsed, fst, pos, ncloses, accepted,
          exported, usable, kdir, kpol, kval, last>>

caller == <<pin, pc, req, cerr, elapsed, fst, pos, ncloses, accepted>>
kernel == <<exported, usable, kdir, kpol, kval>>

\* ----------------------------------------------------------- pure helpers

\* Pin{Number: p}: direction and f take their zero values
NewPin(p) == [Number |-> p, direction |-> inDirection, f |-> "nil"]

\* NewOutput: initVal := uint(0); if initHigh { initVal = uint(1) }
InitVal(initHigh) == IF initHigh THEN 1 ELSE 0

\* setDirection with "out" for an output that starts low
DirectionToken_Out(d, initialValue) ==
    CASE d = inDirection -> "in"
      [] d = outDirection /\ initialValue = 0 -> "out"
      [] d = outDirection /\ initialValue = 1 -> "high"
      [] OTHER -> "invalid"

\* the switch of setDirection: the token written, or "invalid"
DirectionToken(d, initialValue) ==
    CASE d = inDirection -> "in"
      [] d = outDirection /\ initialValue = 0 -> "low"
      [] d = outDirection /\ initialValue = 1 -> "high"
      [] OTHER -> "invalid"

\* the switch of setEdgeTrigger; no method of Pin calls it
EdgeToken(e) ==
    CASE e = EdgeNone -> "none"
      [] e = EdgeRising -> "rising"
      [] e = EdgeFalling -> "falling"
      [] e = EdgeBoth -> "both"
      [] OTHER -> "invalid"

\* the switch of setLogicLevel
LevelToken(l) ==
    CASE l = ActiveHigh -> "0"
      [] l = ActiveLow -> "1"
      [] OTHER -> "invalid"

\* writePin with the two digits exchanged
ValueByte_Swapped(v) ==
    CASE v = 0 -> "1"
      [] v = 1 -> "0"
      [] OTHER -> "invalid"

\* the switch of writePin
ValueByte(v) ==
    CASE v = 0 -> "0"
      [] v = 1 -> "1"
      [] OTHER -> "invalid"

\* the switch of readPin on the byte read
ParseByte(c) ==
    CASE c = "0" -> [val |-> 0, err |-> "nil"]
      [] c = "1" -> [val |-> 1, err |-> "nil"]
      [] OTHER -> [val |-> 0, err |-> "UnexpectedValueEncoding"]

\* the value written by High() and by Low()
HighValue == 1
LowValue == 0

\* the direction NewInput / NewOutput store in the Pin and pass to setDirection
DirectionOf(kind) == IF kind = "NewOutput" THEN outDirection ELSE inDirection

\* ------------------------------------------------------------ the kernel

Digit(d) == CASE d = 0 -> "0" [] d = 1 -> "1" [] d = 2 -> "2" [] d = 3 -> "3"
              [] d = 4 -> "4" [] d = 5 -> "5" [] d = 6 -> "6" [] d = 7 -> "7"
              [] d = 8 -> "8" [] d = 9 -> "9"

\* strconv.Itoa for a non-negative int: the decimal digits, most significant first
RECURSIVE Itoa(_)
Itoa(n) == IF n < 10 THEN <<Digit(n)>> ELSE Itoa(n \div 10) \o <<Digit(n % 10)>>

\* the kernel's reading of a decimal number written to export / unexport
DigitVal(c) == CHOOSE d \in 0..9 : Digit(d) = c
RECURSIVE Atoi(_)
Atoi(s) == IF Len(s) = 0 THEN 0
           ELSE 10 * Atoi(SubSeq(s, 1, Len(s) - 1)) + DigitVal(s[Len(s)])

\* the per-pin control files the package uses
Files == {"direction", "value", "active_low"}

\* the value file holds a single byte
ValueFileLen == 1

\* the byte the value file holds
ValueFileByte(n) == CASE kval[n] = 0 -> "0" [] kval[n] = 1 -> "1" [] OTHER -> "?"

\* the byte a read of one byte at offset off returns, "EOF" past the end
ByteAt(n, off) == IF off < ValueFileLen THEN ValueFileByte(n) ELSE "EOF"

\* the offset after one byte was read or written at offset off
OffsetAfter(off) == IF off < ValueFileLen THEN off + 1 ELSE off

\* a write of a pin number to the export file is accepted unless the pin is
\* exported already (or is no pin of the chip)
ExportAccepts(n) == n \in PinNumbers /\ ~exported[n]

\* a write of a pin number to the unexport file is accepted when it is exported
UnexportAccepts(n) == n \in PinNumbers /\ exported[n]

\* what an open of gpio<n>/<f> needs: the file exists and the device manager
\* has made it accessible
CanOpen(n, f) == exported[n] /\ f \in usable[n]

\* unix.Access(".../gpio<n>/direction", W_OK) == nil, and the open of the
\* direction file in setDirection
Accessible(n) == CanOpen(n, "direction")

\* the kernel's effect of a token written to gpio<n>/direction
DirAfter(n, tok) == IF tok = "in" THEN "in" ELSE "out"
ValAfter(n, tok) == CASE tok = "high" -> 1 [] tok = "low" -> 0 [] OTHER -> kval[n]

\* the step record: who, which function, its error, the control file written
\* and the token (for export and unexport the token is "decimal" and num the
\* digits written), the value the step returns or names (the value read; the
\* time elapsed when a wait ends; the level given to SetLogicLevel), and
\* whether the value file was read
Step(i, op, err, file, tok, num, val, rd) ==
    [inst |-> i, op |-> op, err |-> err, file |-> file, tok |-> tok,
     num |-> num, val |-> val, rd |-> rd, off |-> 0]

\* a step of readPin: off is the offset the handle had when Read was called
ReadStep(i, err, val, rd, off) ==
    [Step(i, "Read", err, "none", "", <<>>, val, rd) EXCEPT !.off = off]

NoWrite(i, op, err) == Step(i, op, err, "none", "", <<>>, 0, FALSE)

Wrote(i, op, err, file, tok) == Step(i, op, err, file, tok, <<>>, 0, FALSE)

WroteNumber(i, op, file, n) == Step(i, op, "nil", file, "decimal", Itoa(n), 0, FALSE)

Init ==
    /\ pin = [i \in Insts |-> NewPin(FirstPin)]
    /\ pc = [i \in Insts |-> "idle"]
    /\ req = [i \in Insts |-> [kind |-> "none", initHigh |-> FALSE]]
    /\ cerr = [i \in Insts |-> "none"]
    /\ elapsed = [i \in Insts |-> 0]
    /\ fst = [i \in Insts |-> "none"]
    /\ pos = [i \in Insts |-> 0]
    /\ ncloses = [i \in Insts |-> 0]
    /\ accepted = [i \in Insts |-> "none"]
    /\ exported = [n \in PinNumbers |-> FALSE]
    /\ usable = [n \in PinNumbers |-> {}]
    /\ kdir = [n \in PinNumbers |-> "in"]
    /\ kpol = [n \in PinNumbers |-> "0"]
    /\ kval = [n \in PinNumbers |-> 0]
    /\ last = NoWrite(0, "none", "nil")

\* --------------------------------------------------------- construction

\* exportGPIO up to the call of waitUntilWritable: open the export file,
\* write the pin number (the result of the write is dropped)
exportGPIO(i, n, kind, initHigh) ==
    /\ pc[i] = "idle"
    /\ pin' = [pin EXCEPT ![i] = NewPin(n)]
    /\ req' = [req EXCEPT ![i] = [kind |-> kind, initHigh |-> initHigh]]
    /\ \E openOk \in BOOLEAN :
         IF ~openOk
         THEN /\ cerr' = [cerr EXCEPT ![i] = "ExportFailure"]
              /\ pc' = [pc EXCEPT ![i] = "ret"]
              /\ last' = NoWrite(i, "exportGPIO", "ExportFailure")
              /\ UNCHANGED <<accepted, exported>>
         ELSE /\ accepted' = [accepted EXCEPT ![i] =
                                IF ExportAccepts(Atoi(Itoa(n))) THEN "yes" ELSE "no"]
              /\ exported' = [exported EXCEPT ![Atoi(Itoa(n))] = TRUE]
              /\ pc' = [pc EXCEPT ![i] = "wait"]
              /\ last' = WroteNumber(i, "exportGPIO", "export", n)
              /\ UNCHANGED cerr
    /\ UNCHANGED <<elapsed, fst, pos, ncloses, usable, kdir, kpol, kval>>

NewInput(i, n) == exportGPIO(i, n, "NewInput", FALSE)

NewOutput(i, n, initHigh) == exportGPIO(i, n, "NewOutput", initHigh)

\* the timeout check with a bound two polls too long
TimedOut_Late(e) == e >= timeout + 2 * sleepMs

\* if time.Since(start) >= timeout
TimedOut(e) == e >= timeout

\* the polls left before time.Since(start) >= timeout
TurnsLeft(i) == (timeout - elapsed[i] + sleepMs - 1) \div sleepMs

\* the loop with the probe taken before the timeout check
waitUntilWritable_ProbeFirst(i, k) ==
    /\ pc[i] = "wait"
    /\ IF Accessible(pin[i].Number)
       THEN /\ pc' = [pc EXCEPT ![i] = "setdir"]
            /\ last' = Step(i, "waitUntilWritable", "nil", "none", "", <<>>,
                            elapsed[i], FALSE)
            /\ elapsed' = [elapsed EXCEPT ![i] = 0]
            /\ UNCHANGED cerr
       ELSE IF TimedOut(elapsed[i])
       THEN /\ cerr' = [cerr EXCEPT ![i] = "ExportTimeout"]
            /\ pc' = [pc EXCEPT ![i] = "ret"]
            /\ last' = Step(i, "waitUntilWritable", "ExportTimeout", "none", "", <<>>,
                            elapsed[i], FALSE)
            /\ elapsed' = [elapsed EXCEPT ![i] = 0]
       ELSE /\ k \in 1..TurnsLeft(i)
            /\ elapsed' = [elapsed EXCEPT ![i] = @ + k * sleepMs]
            /\ last' = NoWrite(i, "Sleep", "nil")
            /\ UNCHANGED <<cerr, pc>>
    /\ UNCHANGED <<pin, req, fst, pos, ncloses, accepted, kernel>>

\* waitUntilWritable: the timeout check, the probe of the direction file, and
\* k sleeps with the probes between them failing like the first
waitUntilWritable(i, k) ==
    /\ pc[i] = "wait"
    /\ IF TimedOut(elapsed[i])
       THEN /\ cerr' = [cerr EXCEPT ![i] = "ExportTimeout"]
            /\ pc' = [pc EXCEPT ![i] = "ret"]
            /\ last' = Step(i, "waitUntilWritable", "ExportTimeout", "none", "", <<>>,
                            elapsed[i], FALSE)
            /\ elapsed' = [elapsed EXCEPT ![i] = 0]
       ELSE IF Accessible(pin[i].Number)
       THEN /\ pc' = [pc EXCEPT ![i] = "setdir"]
            /\ last' = Step(i, "waitUntilWritable", "nil", "none", "", <<>>,
                            elapsed[i], FALSE)
            /\ elapsed' = [elapsed EXCEPT ![i] = 0]
            /\ UNCHANGED cerr
       ELSE /\ k \in 1..TurnsLeft(i)
            /\ elapsed' = [elapsed EXCEPT ![i] = @ + k * sleepMs]
            /\ last' = NoWrite(i, "Sleep", "nil")
            /\ UNCHANGED <<cerr, pc>>
    /\ UNCHANGED <<pin, req, fst, pos, ncloses, accepted, kernel>>

\* poll by poll
Poll(i) == waitUntilWritable(i, 1)

\* a wait that runs to the timeout without another step between its polls
Wait(i) == waitUntilWritable(i, TurnsLeft(i))

\* pin.direction = ...; err = setDirection(pin, d, initVal)
setDirection(i) ==
    /\ pc[i] = "setdir"
    /\ LET d == DirectionOf(req[i].kind)
           v == IF req[i].kind = "NewOutput" THEN InitVal(req[i].initHigh) ELSE 0
           n == pin[i].Number
           tok == DirectionToken(d, v)
       IN /\ pin' = [pin EXCEPT ![i].direction = d]
          /\ IF ~Accessible(n)
             THEN /\ cerr' = [cerr EXCEPT ![i] = "DirectionFailure"]
                  /\ pc' = [pc EXCEPT ![i] = "ret"]
                  /\ last' = NoWrite(i, "setDirection", "DirectionFailure")
                  /\ UNCHANGED <<kdir, kval>>
             ELSE IF tok = "invalid"
             THEN /\ cerr' = [cerr EXCEPT ![i] = "InvalidConfiguration"]
                  /\ pc' = [pc EXCEPT ![i] = "ret"]
                  /\ last' = NoWrite(i, "setDirection", "InvalidConfiguration")
                  /\ UNCHANGED <<kdir, kval>>
             ELSE /\ kdir' = [kdir EXCEPT ![n] = DirAfter(n, tok)]
                  /\ kval' = [kval EXCEPT ![n] = ValAfter(n, tok)]
                  /\ pc' = [pc EXCEPT ![i] = "open"]
                  /\ last' = Wrote(i, "setDirection", "nil", "direction", tok)
                  /\ UNCHANGED cerr
    /\ UNCHANGED <<req, elapsed, fst, pos, ncloses, accepted, exported, usable, kpol>>

\* openPin that gives the pin back when the open fails
openPin_Rollback(i) ==
    /\ pc[i] = "open"
    /\ LET write == req[i].kind = "NewOutput"
           n == pin[i].Number
       IN IF ~CanOpen(n, "value")
          THEN /\ cerr' = [cerr EXCEPT ![i] = "OpenFailure"]
               /\ last' = [WroteNumber(i, "openPin", "unexport", n)
                              EXCEPT !.err = "OpenFailure"]
               /\ exported' = [exported EXCEPT ![n] = FALSE]
               /\ UNCHANGED <<pin, fst, pos>>
          ELSE /\ pin' = [pin EXCEPT ![i].f = IF write THEN "rw" ELSE "ro"]
               /\ fst' = [fst EXCEPT ![i] = "open"]
               /\ pos' = [pos EXCEPT ![i] = 0]
               /\ cerr' = [cerr EXCEPT ![i] = "nil"]
               /\ last' = NoWrite(i, "openPin", "nil")
               /\ UNCHANGED exported
    /\ pc' = [pc EXCEPT ![i] = "ret"]
    /\ UNCHANGED <<req, elapsed, ncloses, accepted, usable, kdir, kpol, kval>>

\* openPin(pin, write): the last step of NewInput (read-only) and NewOutput
openPin(i) ==
    /\ pc[i] = "open"
    /\ LET write == req[i].kind = "NewOutput"
           n == pin[i].Number
       IN IF ~CanOpen(n, "value")
          THEN /\ cerr' = [cerr EXCEPT ![i] = "OpenFailure"]
               /\ last' = NoWrite(i, "openPin", "OpenFailure")
               /\ UNCHANGED <<pin, fst, pos>>
          ELSE /\ pin' = [pin EXCEPT ![i].f = IF write THEN "rw" ELSE "ro"]
               /\ fst' = [fst EXCEPT ![i] = "open"]
               /\ pos' = [pos EXCEPT ![i] = 0]
               /\ cerr' = [cerr EXCEPT ![i] = "nil"]
               /\ last' = NoWrite(i, "openPin", "nil")
    /\ pc' = [pc EXCEPT ![i] = "ret"]
    /\ UNCHANGED <<req, elapsed, ncloses, accepted, kernel>>

\* ------------------------------------------------------------ operations

\* the body of Close on its receiver p: the receiver afterwards
CloseReceiver(p) == IF p.f # "nil" THEN [p EXCEPT !.f = "nil"] ELSE p

\* Close and Cleanup have value receivers (func (p Pin) ...): the method works
\* on a copy, and the caller's Pin value is what it was before the call
AfterValueMethod(p, receiverAfter) == p

\* a Close that does not call p.f.Close()
FileAfterClose_Noop(st) == st

\* os.File.Close: an open (or dead) file becomes closed; a closed one stays so
FileAfterClose(st) == IF st \in {"open", "dead"} THEN "closed" ELSE st

\* the model follows at most MaxCloseCalls calls of p.f.Close() per Pin value
CanClose(i) == pin[i].f = "nil" \/ ncloses[i] < MaxCloseCalls

\* p.Close() through Pin value i: the effect on the caller's value and the file
CloseEffect(i) ==
    /\ pin' = [pin EXCEPT ![i] = AfterValueMethod(pin[i], CloseReceiver(pin[i]))]
    /\ IF pin[i].f # "nil"
       THEN /\ ncloses' = [ncloses EXCEPT ![i] = @ + 1]
            /\ fst' = [fst EXCEPT ![i] = FileAfterClose(@)]
            /\ pos' = [pos EXCEPT ![i] = IF FileAfterClose(fst[i]) = "closed" THEN 0 ELSE @]
       ELSE UNCHANGED <<ncloses, fst, pos>>

\* a Close that also writes the pin number to the unexport file
Close_Unexports(i) ==
    /\ pc[i] = "ret"
    /\ CanClose(i)
    /\ CloseEffect(i)
    /\ last' = WroteNumber(i, "Close", "unexport", pin[i].Number)
    /\ exported' = [exported EXCEPT ![pin[i].Number] = FALSE]
    /\ UNCHANGED <<pc, req, cerr, elapsed, accepted, usable, kdir, kpol, kval>>

\* Pin.Close
Close(i) ==
    /\ pc[i] = "ret"
    /\ CanClose(i)
    /\ CloseEffect(i)
    /\ last' = NoWrite(i, "Close", "nil")
    /\ UNCHANGED <<pc, req, cerr, elapsed, accepted, kernel>>

\* a Cleanup that goes to the unexport without p.Close()
CleanupClose_Skip(i) ==
    /\ pc[i] = "ret"
    /\ CanClose(i)
    /\ pc' = [pc EXCEPT ![i] = "cleanup"]
    /\ last' = NoWrite(i, "Cleanup.Close", "nil")
    /\ UNCHANGED <<pin, fst, pos, ncloses, req, cerr, elapsed, accepted, kernel>>

\* Cleanup: p.Close() ...
CleanupClose(i) ==
    /\ pc[i] = "ret"
    /\ CanClose(i)
    /\ CloseEffect(i)
    /\ pc' = [pc EXCEPT ![i] = "cleanup"]
    /\ last' = NoWrite(i, "Cleanup.Close", "nil")
    /\ UNCHANGED <<req, cerr, elapsed, accepted, kernel>>

\* the files of an unexported pin are gone: handles still open on them are dead
FilesAfterUnexport(n) ==
    [j \in Insts |-> IF pin[j].Number = n /\ fst[j] = "open" THEN "dead" ELSE fst[j]]

\* ... return unexportGPIO(p): open the unexport file, write the pin number
\* (the result of the write is dropped)
unexportGPIO(i) ==
    /\ pc[i] = "cleanup"
    /\ pc' = [pc EXCEPT ![i] = "ret"]
    /\ LET n == Atoi(Itoa(pin[i].Number)) IN
       \E openOk \in BOOLEAN :
         IF ~openOk
         THEN /\ last' = NoWrite(i, "unexportGPIO", "UnexportFailure")
              /\ UNCHANGED <<fst, kernel>>
         ELSE /\ last' = WroteNumber(i, "unexportGPIO", "unexport", pin[i].Number)
              /\ IF UnexportAccepts(n)
                 THEN /\ exported' = [exported EXCEPT ![n] = FALSE]
                      /\ usable' = [usable EXCEPT ![n] = {}]
                      /\ kdir' = [kdir EXCEPT ![n] = "in"]
                      /\ kpol' = [kpol EXCEPT ![n] = "0"]
                      /\ kval' = [kval EXCEPT ![n] = 0]
                      /\ fst' = FilesAfterUnexport(n)
                 ELSE UNCHANGED <<fst, kernel>>
    /\ UNCHANGED <<pin, req, cerr, elapsed, pos, ncloses, accepted>>

\* a read from wherever the handle stands
SeekStart_None(off) == off

\* file.Seek(0, 0): the offset the read starts from
SeekStart(off) == 0

\* readPin(p): Seek(0, 0), read one byte, decode it.  A read on a nil or
\* closed file, or past the end of the file, returns the error of file.Read
readPin(i) ==
    LET at == SeekStart(pos[i])
        c == ByteAt(pin[i].Number, at)
    IN IF pin[i].f = "nil" \/ fst[i] # "open"
       THEN ReadStep(i, "ReadFailure", 0, FALSE, pos[i])
       ELSE IF c = "EOF"
       THEN ReadStep(i, "ReadFailure", 0, TRUE, pos[i])
       ELSE ReadStep(i, ParseByte(c).err, ParseByte(c).val, TRUE, pos[i])

\* the offset of the handle after readPin
OffsetAfterRead(i) ==
    IF pin[i].f = "nil" \/ fst[i] # "open" THEN pos[i]
    ELSE OffsetAfter(SeekStart(pos[i]))

\* a Read that first makes the pin an input
Read_AsInput(i) ==
    /\ pc[i] = "ret"
    /\ last' = readPin(i)
    /\ pos' = [pos EXCEPT ![i] = OffsetAfterRead(i)]
    /\ kdir' = [kdir EXCEPT ![pin[i].Number] = "in"]
    /\ UNCHANGED <<pin, pc, req, cerr, elapsed, fst, ncloses, accepted,
                   exported, usable, kpol, kval>>

\* Pin.Read
Read(i) ==
    /\ pc[i] = "ret"
    /\ last' = readPin(i)
    /\ pos' = [pos EXCEPT ![i] = OffsetAfterRead(i)]
    /\ UNCHANGED <<pin, pc, req, cerr, elapsed, fst, ncloses, accepted, kernel>>

\* a level set through the direction file instead of the value file
writePin_Direction(i, op, v) ==
    Wrote(i, op, "nil", "direction", IF v = HighValue THEN "high" ELSE "low")

\* writePin(p, v): the step it makes; a write needs a file opened read-write
writePin(i, op, v) ==
    IF ValueByte(v) = "invalid"
    THEN NoWrite(i, op, "InvalidValue")
    ELSE IF pin[i].f # "rw" \/ fst[i] # "open"
    THEN NoWrite(i, op, "WriteFailure")
    ELSE Wrote(i, op, "nil", "value", ValueByte(v))

\* High and Low without the direction gate
WrongDirection_Never(p) == FALSE

\* the direction gate of High and Low
WrongDirection(p) == p.direction # outDirection

\* the kernel's value after a step: a byte written to the value file sets it
ValueAfter(st, n) ==
    IF st.file = "value" THEN [kval EXCEPT ![n] = IF st.tok = "1" THEN 1 ELSE 0]
    ELSE kval

\* Pin.High / Pin.Low: the gate, then writePin; a write moves the offset on
SetValue(i, op, v) ==
    /\ pc[i] = "ret"
    /\ LET st == IF WrongDirection(pin[i]) THEN NoWrite(i, op, "WrongDirection")
                 ELSE writePin(i, op, v)
       IN /\ last' = st
          /\ kval' = ValueAfter(st, pin[i].Number)
          /\ pos' = [pos EXCEPT ![i] = IF st.file = "value" THEN OffsetAfter(@) ELSE @]
    /\ UNCHANGED <<pin, pc, req, cerr, elapsed, fst, ncloses, accepted,
                   exported, usable, kdir, kpol>>

High(i) == SetValue(i, "High", HighValue)

Low(i) == SetValue(i, "Low", LowValue)

\* a path built from a fixed pin number
PathPin_Fixed(p) == FirstPin

\* fmt.Sprintf("/sys/class/gpio/gpio%d/...", p.Number): the pin whose file a
\* path names
PathPin(p) == p.Number

\* setLogicLevel(p, l): open active_low, write the token of the level
setLogicLevel(i, l) ==
    /\ pc[i] = "ret"
    /\ LET n == PathPin(pin[i])
           tok == LevelToken(l)
       IN IF ~CanOpen(n, "active_low")
          THEN /\ last' = [NoWrite(i, "SetLogicLevel", "OpenError") EXCEPT !.val = l]
               /\ UNCHANGED kpol
          ELSE IF tok = "invalid"
          THEN /\ last' = [NoWrite(i, "SetLogicLevel", "InvalidConfiguration")
                             EXCEPT !.val = l]
               /\ UNCHANGED kpol
          ELSE /\ last' = [Wrote(i, "SetLogicLevel", "nil", "active_low", tok)
                             EXCEPT !.val = l]
               /\ kpol' = [kpol EXCEPT ![n] = tok]
    /\ UNCHANGED <<caller, exported, usable, kdir, kval>>

\* SetLogicLevel behind the direction gate of High and Low
SetLogicLevel_Gated(i, l) ==
    IF WrongDirection(pin[i])
    THEN /\ pc[i] = "ret"
         /\ last' = [NoWrite(i, "SetLogicLevel", "WrongDirection") EXCEPT !.val = l]
         /\ UNCHANGED <<caller, kernel>>
    ELSE setLogicLevel(i, l)

\* Pin.SetLogicLevel: return setLogicLevel(p, logicLevel)
SetLogicLevel(i, l) == setLogicLevel(i, l)

\* ------------------------------------------------------- the environment

\* the device manager makes the files of an exported pin accessible
DeviceManager(n) ==
    /\ exported[n]
    /\ usable[n] # Files
    /\ usable' = [usable EXCEPT ![n] = Files]
    /\ last' = NoWrite(0, "DeviceManager", "nil")
    /\ UNCHANGED <<caller, exported, kdir, kpol, kval>>

\* the device manager makes one file of an exported pin accessible
DeviceManagerFile(n, f) ==
    /\ exported[n]
    /\ f \notin usable[n]
    /\ usable' = [usable EXCEPT ![n] = @ \cup {f}]
    /\ last' = NoWrite(0, "DeviceManager", "nil")
    /\ UNCHANGED <<caller, exported, kdir, kpol, kval>>

\* the electrical level of an input line changes
LineChange(n) ==
    /\ exported[n]
    /\ kdir[n] = "in"
    /\ kval' = [kval EXCEPT ![n] = IF @ = 0 THEN 1 ELSE 0]
    /\ last' = NoWrite(0, "LineChange", "nil")
    /\ UNCHANGED <<caller, exported, usable, kdir, kpol>>

\* a driver or wiring anomaly: the value file of an input shows no digit
Anomaly(n) ==
    /\ exported[n]
    /\ kdir[n] = "in"
    /\ kval[n] \in {0, 1}
    /\ kval' = [kval EXCEPT ![n] = 2]
    /\ last' = NoWrite(0, "Anomaly", "nil")
    /\ UNCHANGED <<caller, exported, usable, kdir, kpol>>

LogicLevels == {ActiveHigh, ActiveLow, ActiveLow + 1}

\* the steps of the callers in I and of the environment
Calls(I) ==
    \/ \E i \in I, n \in PinNumbers : NewInput(i, n)
    \/ \E i \in I, n \in PinNumbers, h \in BOOLEAN : NewOutput(i, n, h)
    \/ \E i \in I : setDirection(i)
    \/ \E i \in I : openPin(i)
    \/ \E i \in I : Close(i)
    \/ \E i \in I : CleanupClose(i)
    \/ \E i \in I : unexportGPIO(i)
    \/ \E i \in I : Read(i)
    \/ \E i \in I : High(i)
    \/ \E i \in I : Low(i)
    \/ \E i \in I, l \in LogicLevels : SetLogicLevel(i, l)
    \/ \E n \in PinNumbers : DeviceManager(n)
    \/ \E n \in PinNumbers : LineChange(n)

Next ==
    \/ Calls(Insts)
    \/ \E i \in Insts : Wait(i)

Spec == Init /\ [][Next]_vars

NextPoll ==
    \/ Calls(PollInsts)
    \/ \E i \in PollInsts : Poll(i)
    \/ \E n \in PinNumbers, f \in Files : DeviceManagerFile(n, f)
    \/ \E n \in PinNumbers : Anomaly(n)

SpecPoll == Init /\ [][NextPoll]_vars

\* a caller inside waitUntilWritable is a running thread: it takes its next turn
SpecPollFair == SpecPoll /\ \A i \in PollInsts : WF_vars(Poll(i))

\* ================================================================ claims

\* the pin number of Pin value i, and what "open" means for it: construction
\* returned nil, the handle is present and its file is open and live
Num(i) == pin[i].Number
IsOpen(i) == cerr[i] = "nil" /\ pin[i].f # "nil" /\ fst[i] = "open"
ConstructionSteps == {"exportGPIO", "waitUntilWritable", "setDirection", "openPin"}

\* C1 (as stated): while pin n is exported by a successful NewInput(n) /
\* NewOutput(n) of another Pin value, a construction whose write to the
\* export file the kernel rejected fails with ExportFailure and reaches
\* neither direction-set nor value-open.
C1_DuplicateExportFails ==
    \A i \in Insts : \A j \in Insts \ {i} :
        (/\ accepted[i] = "no"
         /\ cerr[j] = "nil"
         /\ Num(j) = Num(i)
         /\ exported[Num(i)])
        => /\ pc[i] \notin {"setdir", "open"}
           /\ cerr[i] \in {"none", "ExportFailure"}

\* C2 (as stated): through one Pin value, p.f.Close() is called at most once,
\* whatever Close() and Cleanup() calls are made.
C2_CloseOnce == \A i \in Insts : ncloses[i] <= 1

\* C3 (as stated): the first failing step of a construction ends it with that
\* step's error; in particular a rejected write of the pin number to the
\* export file is the construction's error and no poll follows it.
C3_FirstFailureAborts ==
    /\ (last.op \in ConstructionSteps /\ last.err # "nil")
       => (pc[last.inst] = "ret" /\ cerr[last.inst] = last.err)
    /\ \A i \in Insts :
         accepted[i] = "no"
         => /\ pc[i] \in {"wait", "ret"}
            /\ cerr[i] \in {"none", "ExportFailure"}
            /\ ~(last.inst = i /\ last.op \in {"Sleep", "waitUntilWritable"})

\* C4: High() and Low() on a Pin constructed via NewInput return
\* WrongDirection and write nothing, whatever the Pin's state: the step
\* leaves every kernel file as it was.
C4_InputNeverWritten ==
    [][(last'.op \in {"High", "Low"} /\ req[last'.inst].kind = "NewInput")
       => (/\ last'.err = "WrongDirection"
           /\ last'.file = "none"
           /\ kernel' = kernel)]_vars

C4_Witness ==
    /\ last.op = "High"
    /\ req[last.inst].kind = "NewInput"
    /\ IsOpen(last.inst)
    /\ last.err = "WrongDirection"

\* the bound of the wait: inside the loop the elapsed time stays below the
\* timeout plus one poll interval, and ExportTimeout is returned with at least
\* the timeout and at most the timeout plus one poll interval elapsed
C5_Bounded ==
    /\ \A i \in Insts : pc[i] = "wait" => elapsed[i] < timeout + sleepMs
    /\ last.err = "ExportTimeout"
         => /\ last.op = "waitUntilWritable"
            /\ last.val >= timeout
            /\ last.val <= timeout + sleepMs

\* C5: the bound above holds throughout, and a caller inside the loop of
\* waitUntilWritable leaves it: to the direction write, or with ExportTimeout.
C5_WaitTerminates ==
    /\ []C5_Bounded
    /\ \A i \in PollInsts :
         (pc[i] = "wait") ~> (pc[i] = "setdir" \/ cerr[i] = "ExportTimeout")

C5_Witness ==
    /\ last.op = "waitUntilWritable"
    /\ last.err = "ExportTimeout"
    /\ last.val = timeout
    /\ "direction" \notin usable[Num(last.inst)]

\* C6 (as stated): when NewOutput(n, b) returns nil, pin n is an output and
\* its value is 1 if b and 0 if not.
C6_InitialLevel ==
    (last.op = "openPin" /\ last.err = "nil" /\ req[last.inst].kind = "NewOutput")
    => /\ kdir[Num(last.inst)] = "out"
       /\ kval[Num(last.inst)] = InitVal(req[last.inst].initHigh)

\* C7: after High() on an open Output Pin the value file holds "1", after
\* Low() it holds "0", and the call returns nil, whatever calls came before.
C7_LastWriteWins ==
    (last.op \in {"High", "Low"} /\ IsOpen(last.inst)
        /\ pin[last.inst].direction = outDirection)
    => /\ last.err = "nil"
       /\ ValueFileByte(Num(last.inst)) = (IF last.op = "High" THEN "1" ELSE "0")

C7_Witness ==
    /\ last.op = "High"
    /\ IsOpen(last.inst)
    /\ pin[last.inst].direction = outDirection
    /\ req[last.inst].initHigh = FALSE
    /\ kval[Num(last.inst)] = 1

\* C8: once p.f.Close() has been called through a Pin value, Read(), High()
\* and Low() on it return an error, do not read the value file and write
\* nothing.
C8_ClosedNoIO ==
    (last.op \in {"Read", "High", "Low"} /\ ncloses[last.inst] >= 1)
    => /\ last.err # "nil"
       /\ ~last.rd
       /\ last.file = "none"

C8_Witness ==
    /\ last.op = "Read"
    /\ ncloses[last.inst] >= 1
    /\ req[last.inst].kind = "NewInput"
    /\ exported[Num(last.inst)]
    /\ last.err = "ReadFailure"

\* C9: inside Cleanup the handle is released before the unexport file is
\* written: between the two, and after the unexport, the file of this Pin is
\* not open.  Cleanup returns the result of unexportGPIO, nil or
\* UnexportFailure, and when it is nil the pin is no longer exported.
C9_CloseThenUnexport ==
    /\ \A i \in Insts : pc[i] = "cleanup" => fst[i] \notin {"open", "dead"}
    /\ last.op = "unexportGPIO"
         => /\ fst[last.inst] \notin {"open", "dead"}
            /\ pc[last.inst] = "ret"
            /\ last.err \in {"nil", "UnexportFailure"}
            /\ last.err = "nil" => ~exported[Num(last.inst)]
            /\ last.err = "nil" <=> last.file = "unexport"

C9_Witness ==
    /\ last.op = "unexportGPIO"
    /\ last.err = "nil"
    /\ cerr[last.inst] = "nil"
    /\ ncloses[last.inst] = 1
    /\ fst[last.inst] = "closed"
    /\ ~exported[Num(last.inst)]

\* C10: Close() writes to no control file: the step leaves the kernel's
\* exported flag, direction, polarity and value of every pin, and the Pin's
\* Number and direction, as they were.
C10_CloseFrame ==
    [][last'.op = "Close"
       => (/\ last'.file = "none"
           /\ kernel' = kernel
           /\ pin'[last'.inst].Number = pin[last'.inst].Number
           /\ pin'[last'.inst].direction = pin[last'.inst].direction)]_vars

C10_Witness ==
    /\ last.op = "Close"
    /\ cerr[last.inst] = "nil"
    /\ fst[last.inst] = "closed"
    /\ exported[Num(last.inst)]
    /\ kdir[Num(last.inst)] = "out"

\* what an operation called on Pin value j next would return and write
Outcomes(j) ==
    <<readPin(j), writePin(j, "High", HighValue), writePin(j, "Low", LowValue),
      WrongDirection(pin[j]), CanClose(j),
      [f \in Files |-> CanOpen(Num(j), f)],
      ExportAccepts(Num(j)), UnexportAccepts(Num(j))>>

\* C11: a step of an operation on a Pin for pin number m (construction, Read,
\* High, Low, SetLogicLevel, Close, Cleanup) leaves, for every other pin
\* number n, the kernel's exported state, usability, direction, polarity and
\* value of n unchanged, and leaves every Pin value for n, its handle, the
\* handle's file and offset, and the outcome of each operation on it as they
\* were before the step.
C11_Independent ==
    [][\A i \in Insts :
          last'.inst = i =>
          \A n \in PinNumbers \ {pin'[i].Number} :
              /\ exported'[n] = exported[n]
              /\ usable'[n] = usable[n]
              /\ kdir'[n] = kdir[n]
              /\ kpol'[n] = kpol[n]
              /\ kval'[n] = kval[n]
              /\ \A j \in Insts \ {i} :
                     Num(j) = n =>
                     /\ pin'[j] = pin[j]
                     /\ fst'[j] = fst[j]
                     /\ pos'[j] = pos[j]
                     /\ cerr'[j] = cerr[j]
                     /\ Outcomes(j)' = Outcomes(j)]_vars

\* Cleanup of a Pin for one pin number has unexported it while a Pin for
\* another pin number is open
C11_Witness ==
    \E i \in Insts : \E j \in Insts \ {i} :
        /\ last.inst = i
        /\ last.op = "unexportGPIO"
        /\ last.err = "nil"
        /\ ~exported[Num(i)]
        /\ Num(j) # Num(i)
        /\ IsOpen(j)
        /\ exported[Num(j)]

\* the steps of the operations a constructed Pin offers
PinOps == {"Read", "High", "Low", "SetLogicLevel", "Close", "Cleanup.Close",
           "unexportGPIO"}

\* C12: once NewInput / NewOutput has returned nil, every step made through
\* that Pin value is a step of Read, High, Low, SetLogicLevel, Close or
\* Cleanup; it leaves the Pin's Number and direction field as they were, it
\* writes nothing to the direction file, and unless it is the unexport of
\* Cleanup it leaves the kernel's direction of the pin as it was.
C12_DirectionWriteOnce ==
    [][\A i \in Insts :
          (last'.inst = i /\ cerr[i] = "nil") =>
          /\ last'.op \in PinOps
          /\ pin'[i].Number = pin[i].Number
          /\ pin'[i].direction = pin[i].direction
          /\ last'.file # "direction"
          /\ (last'.op # "unexportGPIO" => kdir'[Num(i)] = kdir[Num(i)])]_vars

\* Low() has written through an Output Pin whose direction is still output
C12_Witness ==
    /\ last.op = "Low"
    /\ last.err = "nil"
    /\ cerr[last.inst] = "nil"
    /\ pin[last.inst].direction = outDirection
    /\ kdir[Num(last.inst)] = "out"

\* C13 (as stated): the value file is never read through a Pin whose
\* direction is output and never written through a Pin whose direction is
\* input, and Read() returns a value only on a Pin made by NewInput.
C13_DirectionGated ==
    \A i \in Insts :
        last.inst = i =>
        /\ (last.rd => pin[i].direction = inDirection)
        /\ (last.file = "value" => pin[i].direction = outDirection)
        /\ (last.op = "Read" /\ last.err = "nil" => req[i].kind = "NewInput")

\* C14: a Read() step on an open Output Pin writes to no file and leaves the
\* kernel's record of every pin (exported, usable, direction, polarity,
\* value) and the Pin and its file as they were; and High() / Low() on an
\* open Output Pin whose handle has been read or written before (offset past
\* the start) still returns nil and leaves the value file at 1 / 0.
C14_ReadOnOutput ==
    [][\A i \in Insts :
          (last'.inst = i /\ IsOpen(i) /\ pin[i].direction = outDirection) =>
          /\ last'.op = "Read" =>
                /\ last'.file = "none"
                /\ kernel' = kernel
                /\ pin' = pin
                /\ fst' = fst
          /\ (last'.op \in {"High", "Low"} /\ pos[i] > 0) =>
                /\ last'.err = "nil"
                /\ kval'[Num(i)] = IF last'.op = "High" THEN HighValue ELSE LowValue
                /\ kdir'[Num(i)] = kdir[Num(i)]]_vars

\* a second Read() through an open Output Pin has returned the level 1 that
\* the pin drives
C14_Witness ==
    /\ last.op = "Read"
    /\ last.err = "nil"
    /\ last.off > 0
    /\ last.val = HighValue
    /\ IsOpen(last.inst)
    /\ pin[last.inst].direction = outDirection
    /\ kdir[Num(last.inst)] = "out"
    /\ kval[Num(last.inst)] = HighValue

\* C15: the steps of a construction come in one order.  The polls run only
\* after the pin number was written to the export file; a wait returns nil
\* only from a probe that found the direction file writable at an elapsed
\* time below the timeout; the direction token is written only by the step
\* that follows such a wait; the value file is opened only by the step that
\* follows a direction write that succeeded, and by no other step.
C15_StepOrder ==
    [][\A i \in Insts :
          last'.inst = i =>
          /\ last'.op = "exportGPIO" => pc[i] = "idle"
          /\ last'.op \in {"waitUntilWritable", "Sleep"} =>
                pc[i] = "wait" /\ accepted[i] # "none"
          /\ (last'.op = "waitUntilWritable" /\ last'.err = "nil") =>
                /\ Accessible(Num(i))
                /\ last'.val < timeout
                /\ ~TimedOut(elapsed[i])
          /\ (pc'[i] = "setdir" /\ pc[i] # "setdir") =>
                last'.op = "waitUntilWritable" /\ last'.err = "nil"
          /\ last'.op = "setDirection" => pc[i] = "setdir"
          /\ last'.file = "direction" => last'.op = "setDirection"
          /\ (pc'[i] = "open" /\ pc[i] # "open") =>
                /\ last'.op = "setDirection"
                /\ last'.err = "nil"
                /\ last'.file = "direction"
          /\ last'.op = "openPin" => pc[i] = "open"
          /\ pin'[i].f # pin[i].f => last'.op = "openPin" /\ last'.err = "nil"]_vars

\* a NewOutput whose pin number the export file accepted has gone through
\* the wait and the direction write and has opened the value file
C15_Witness ==
    /\ last.op = "openPin"
    /\ last.err = "nil"
    /\ IsOpen(last.inst)
    /\ accepted[last.inst] = "yes"
    /\ kdir[Num(last.inst)] = "out"

\* C16 (as stated): after a wait that returned nil, neither the direction
\* write nor the open of the value file fails while the pin is exported but
\* the device manager has not yet made its files usable.
C16_WaitClosesRace ==
    \A i \in Insts :
        (/\ last.inst = i
         /\ last.op \in {"setDirection", "openPin"}
         /\ last.err \in {"DirectionFailure", "OpenFailure"})
        => ~exported[Num(i)]

\* C17: every Read() on an open Input Pin reads the byte the value file holds
\* now, whatever the handle's offset was when it was called: it returns 0
\* and nil for "0", 1 and nil for "1", and the UnexpectedValueEncoding error
\* for any other byte.
C17_ReadCurrent ==
    \A i \in Insts :
        (/\ last.inst = i
         /\ last.op = "Read"
         /\ IsOpen(i)
         /\ pin[i].direction = inDirection)
        => /\ last.rd
           /\ ValueFileByte(Num(i)) = "0" => last.err = "nil" /\ last.val = 0
           /\ ValueFileByte(Num(i)) = "1" => last.err = "nil" /\ last.val = 1
           /\ ValueFileByte(Num(i)) \notin {"0", "1"} =>
                 last.err = "UnexpectedValueEncoding"

\* a Read() after earlier reads through the same handle has found a byte
\* that is no digit
C17_Witness ==
    /\ last.op = "Read"
    /\ last.off > 0
    /\ last.err = "UnexpectedValueEncoding"
    /\ IsOpen(last.inst)
    /\ pin[last.inst].direction = inDirection
    /\ ValueFileByte(Num(last.inst)) = "?"

\* the arguments tried on the switches: the legal ones and one beyond
ArgValues == 0..(HighValue + 1)

\* C18: every write to a control file is a token of that file's legal set.
\* The direction file gets "in" from NewInput, "high" from NewOutput(n, true)
\* and "low" from NewOutput(n, false), nothing else; active_low gets "0" for
\* ActiveHigh and "1" for ActiveLow; the value file gets "1" from High() and
\* "0" from Low(); export and unexport get the decimal digits of the Pin's
\* number.  A direction, initial value, edge, level or value outside the
\* legal ones selects no token, and the call returns an error and writes
\* nothing.
C18_LegalTokens ==
    /\ \A i \in Insts :
          last.inst = i =>
          /\ last.tok # "invalid"
          /\ last.file = "direction" =>
                /\ last.tok \in {"in", "low", "high"}
                /\ last.tok = "in" <=> req[i].kind = "NewInput"
                /\ last.tok = "high" <=> (req[i].kind = "NewOutput" /\ req[i].initHigh)
                /\ last.tok = "low" <=> (req[i].kind = "NewOutput" /\ ~req[i].initHigh)
          /\ last.file = "active_low" =>
                /\ last.tok \in {"0", "1"}
                /\ last.tok = "0" <=> last.val = ActiveHigh
                /\ last.tok = "1" <=> last.val = ActiveLow
          /\ last.file = "value" =>
                /\ last.tok \in {"0", "1"}
                /\ last.tok = "1" <=> last.op = "High"
                /\ last.tok = "0" <=> last.op = "Low"
          /\ last.file \in {"export", "unexport"} =>
                /\ last.tok = "decimal"
                /\ last.num = Itoa(Num(i))
                /\ Atoi(last.num) = Num(i)
          /\ (last.op = "SetLogicLevel" /\ last.val \notin {ActiveHigh, ActiveLow}) =>
                last.err # "nil" /\ last.file = "none"
          /\ last.err \in {"InvalidConfiguration", "InvalidValue"} => last.file = "none"
    /\ \A d \in ArgValues : \A v \in ArgValues :
          /\ DirectionToken(d, v) \in {"in", "low", "high", "invalid"}
          /\ DirectionToken(d, v) = "invalid" <=>
                ~(d = inDirection \/ (d = outDirection /\ v \in {LowValue, HighValue}))
          /\ LevelToken(v) \in {"0", "1", "invalid"}
          /\ LevelToken(v) = "invalid" <=> v \notin {ActiveHigh, ActiveLow}
          /\ ValueByte(v) \in {"0", "1", "invalid"}
          /\ ValueByte(v) = "invalid" <=> v \notin {LowValue, HighValue}
    /\ \A e \in 0..(EdgeBoth + 1) :
          /\ EdgeToken(e) \in {"none", "rising", "falling", "both", "invalid"}
          /\ EdgeToken(e) = "invalid" <=> e \notin {EdgeNone, EdgeRising, EdgeFalling, EdgeBoth}

\* SetLogicLevel with a level that is neither ActiveHigh nor ActiveLow has
\* returned the error of the switch on a pin whose active_low file it opened
C18_Witness ==
    /\ last.op = "SetLogicLevel"
    /\ last.val \notin {ActiveHigh, ActiveLow}
    /\ last.err = "InvalidConfiguration"
    /\ last.file = "none"
    /\ CanOpen(Num(last.inst), "active_low")

\* C19: SetLogicLevel looks at neither the Pin's direction nor its handle.
\* Whenever the pin's active_low file can be opened, a call with ActiveHigh
\* or ActiveLow returns nil and leaves "0" or "1" in the file, on Input and
\* Output Pins, open, closed or never opened; and no SetLogicLevel step
\* changes the Pin, its file or offset, or the kernel's direction, value or
\* export state.
C19_LevelUngated ==
    [][\A i \in Insts :
          (last'.inst = i /\ last'.op = "SetLogicLevel") =>
          /\ pin' = pin
          /\ fst' = fst
          /\ pos' = pos
          /\ ncloses' = ncloses
          /\ kdir' = kdir
          /\ kval' = kval
          /\ exported' = exported
          /\ (CanOpen(Num(i), "active_low") /\ last'.val \in {ActiveHigh, ActiveLow}) =>
                /\ last'.err = "nil"
                /\ last'.file = "active_low"
                /\ last'.tok = IF last'.val = ActiveHigh THEN "0" ELSE "1"
                /\ kpol'[Num(i)] = last'.tok]_vars

\* SetLogicLevel(ActiveLow) has succeeded through an Input Pin after Close()
C19_Witness ==
    /\ last.op = "SetLogicLevel"
    /\ last.err = "nil"
    /\ last.val = ActiveLow
    /\ kpol[Num(last.inst)] = "1"
    /\ pin[last.inst].direction = inDirection
    /\ fst[last.inst] = "closed"

\* C20: construction has no rollback.  No step of NewInput / NewOutput
\* writes to the unexport file, and no step other than the unexport of
\* Cleanup takes a pin out of the exported state; so when a construction
\* whose pin number the export file accepted fails (timeout, direction
\* write, open of the value file), the pin is exported when it returns,
\* with no handle in the returned Pin.  Cleanup() on that Pin calls no file
\* close, and its unexport step writes the Pin's number to the unexport file
\* and leaves the pin unexported.
C20_NoRollback ==
    [][\A i \in Insts :
          last'.inst = i =>
          /\ last'.op \in ConstructionSteps \cup {"Sleep"} => last'.file # "unexport"
          /\ last'.op # "unexportGPIO" =>
                \A n \in PinNumbers : exported[n] => exported'[n]
          /\ (/\ last'.op \in ConstructionSteps
              /\ last'.err # "nil"
              /\ accepted'[i] = "yes") =>
                /\ exported'[pin'[i].Number]
                /\ pin'[i].f = "nil"
                /\ pc'[i] = "ret"
          /\ (last'.op = "Cleanup.Close" /\ cerr[i] # "nil") =>
                /\ ncloses' = ncloses
                /\ fst' = fst
                /\ kernel' = kernel
          /\ (last'.op = "unexportGPIO" /\ last'.err = "nil") =>
                /\ last'.file = "unexport"
                /\ last'.num = Itoa(Num(i))
                /\ ~exported'[Num(i)]]_vars

\* Cleanup() on the Pin returned by a construction that failed at the open
\* of the value file, after the export file had accepted the pin number,
\* has unexported the pin without a file close
C20_Witness ==
    /\ last.op = "unexportGPIO"
    /\ last.err = "nil"
    /\ cerr[last.inst] = "OpenFailure"
    /\ accepted[last.inst] = "yes"
    /\ ncloses[last.inst] = 0
    /\ ~exported[Num(last.inst)]

====
